---- MODULE Spec2Model ----
(***************************************************************************)
(* A model of Program.cpp, the Letterboxd diary.csv reader: the field      *)
(* trimmer, the CSV line parser, the safe numeric converter, the diary     *)
(* reader, the star renderer and the sort / statistics part of main.       *)
(*                                                                         *)
(* A std::string is a sequence of one-character strings.  A double is an   *)
(* integer number of 1/Scale units, which is exact for every decimal text  *)
(* the bounds allow.                                                       *)
(***************************************************************************)
EXTENDS Integers, Sequences, FiniteSets, TLC

VARIABLES
    pc,            \* position of the modelled control flow
    line,          \* parseCSVLine: the argument
    fields,        \* parseCSVLine: the returned vector
    rating,        \* ratingToStars: the argument
    stars,         \* ratingToStars: the returned string
    openable,      \* readLetterboxdCSV: whether file.open succeeds
    file,          \* readLetterboxdCSV: the lines getline will deliver
    lineNumber,    \* readLetterboxdCSV: lineNumber
    isFirstLine,   \* readLetterboxdCSV: isFirstLine
    movies,        \* the vector<Movie> (reader's local, then main's)
    cerr,          \* what was written to the error stream
    cout,          \* what was written to the output stream
    ingested,      \* history: movies as readLetterboxdCSV returned them
    sortChoice,    \* main: sortChoice
    ratedMovies,   \* main: ratedMovies
    totalRating,   \* main: totalRating (1/Scale units)
    rewatchCount,  \* main: rewatchCount
    avgRating      \* main: avgRating as <<dividend, divisor>>, <<>> if not computed

vars == <<pc, line, fields, rating, stars, openable, file, lineNumber,
          isFirstLine, movies, cerr, cout, ingested, sortChoice,
          ratedMovies, totalRating, rewatchCount, avgRating>>

----------------------------------------------------------------------------
(* Bounds *)

\* longest line handed to parseCSVLine on its own
MaxLineLen == 4
\* longest rating text handed to ratingToStars on its own
MaxRatingLen == 4
\* most lines in a diary file
MaxLines == 3
\* most records handed to the report part of main
MaxMovies == 3

----------------------------------------------------------------------------
(* Strings *)

\* all strings over alphabet A of length at most n
StringsUpTo(A, n) == UNION {[1..k -> A] : k \in 0..n}

QUOTE == "\""
COMMA == ","
CR == "\r"

\* characters used in the lines given to parseCSVLine
CsvChars == {"a", COMMA, QUOTE, " ", CR}

\* characters used in the texts given to ratingToStars
RatingChars == {"0", "2", "5", "7", ".", "-", "a"}

----------------------------------------------------------------------------
(* trim *)

\* the character set of find_first_not_of / find_last_not_of
TrimChars == {" ", "\t", "\r", "\n", QUOTE}

\* string::npos
npos == -1

find_first_not_of(str) ==
    LET keep == {i \in 1..Len(str) : str[i] \notin TrimChars}
    IN  IF keep = {} THEN npos ELSE CHOOSE i \in keep : \A j \in keep : i <= j

find_last_not_of(str) ==
    LET keep == {i \in 1..Len(str) : str[i] \notin TrimChars}
    IN  IF keep = {} THEN npos ELSE CHOOSE i \in keep : \A j \in keep : j <= i

\* a trim that forgets the trailing side
trim_LeadingOnly(str) ==
    LET first == find_first_not_of(str)
    IN  IF first = npos THEN <<>> ELSE SubSeq(str, first, Len(str))

trim(str) ==
    LET first == find_first_not_of(str)
    IN  IF first = npos
        THEN <<>>
        ELSE SubSeq(str, first, find_last_not_of(str))

----------------------------------------------------------------------------
(* parseCSVLine *)

\* a scan that splits at every comma, quoted or not
RECURSIVE parseScan_SplitInQuotes(_, _, _, _, _)
parseScan_SplitInQuotes(str, i, acc, field, inQuotes) ==
    IF i > Len(str)
    THEN Append(acc, trim(field))
    ELSE LET c == str[i]
         IN  IF c = QUOTE
             THEN parseScan_SplitInQuotes(str, i + 1, acc, field, ~inQuotes)
             ELSE IF c = COMMA
             THEN parseScan_SplitInQuotes(str, i + 1, Append(acc, trim(field)), <<>>, inQuotes)
             ELSE parseScan_SplitInQuotes(str, i + 1, acc, Append(field, c), inQuotes)

\* the for loop of parseCSVLine from index i on (1-based), then the final
\* push_back
RECURSIVE parseScan(_, _, _, _, _)
parseScan(str, i, acc, field, inQuotes) ==
    IF i > Len(str)
    THEN Append(acc, trim(field))
    ELSE LET c == str[i]
         IN  IF c = QUOTE
             THEN parseScan(str, i + 1, acc, field, ~inQuotes)
             ELSE IF c = COMMA /\ ~inQuotes
             THEN parseScan(str, i + 1, Append(acc, trim(field)), <<>>, inQuotes)
             ELSE parseScan(str, i + 1, acc, Append(field, c), inQuotes)

parseCSVLine(str) == parseScan(str, 1, <<>>, <<>>, FALSE)

----------------------------------------------------------------------------
(* safeStringToDouble *)

\* the unit of a double: a value v stands for v / Scale
Scale == 10 ^ (MaxRatingLen - 1)

DigitChars == <<"0", "1", "2", "3", "4", "5", "6", "7", "8", "9">>

IsDigit(c) == \E d \in 1..10 : DigitChars[d] = c

DigitVal(c) == (CHOOSE d \in 1..10 : DigitChars[d] = c) - 1

\* isspace, which strtod skips before the number
IsSpace(c) == c \in {" ", "\t", "\n", "\f", "\r"}

\* the first index >= from whose character fails the test, Len(str) + 1 if none
RECURSIVE SkipSpaces(_, _)
SkipSpaces(str, from) ==
    IF from <= Len(str) /\ IsSpace(str[from]) THEN SkipSpaces(str, from + 1) ELSE from

RECURSIVE SkipDigits(_, _)
SkipDigits(str, from) ==
    IF from <= Len(str) /\ IsDigit(str[from]) THEN SkipDigits(str, from + 1) ELSE from

\* the number written by the digits str[from .. to]
RECURSIVE DigitsValue(_, _, _)
DigitsValue(str, from, to) ==
    IF to < from THEN 0
    ELSE 10 * DigitsValue(str, from, to - 1) + DigitVal(str[to])

\* std::stod(str, &idx) on decimal text: optional white space, an optional
\* sign, digits with an optional point (at least one digit).  ok = FALSE is
\* std::invalid_argument.  idx counts the characters consumed.  Exponents,
\* hexadecimal, inf and nan need letters that no text of this model holds.
stod(str) ==
    LET p0      == SkipSpaces(str, 1)
        signed  == p0 <= Len(str) /\ str[p0] \in {"+", "-"}
        p1      == IF signed THEN p0 + 1 ELSE p0
        intEnd  == SkipDigits(str, p1)
        point   == intEnd <= Len(str) /\ str[intEnd] = "."
        fracEnd == IF point THEN SkipDigits(str, intEnd + 1) ELSE intEnd
        nInt    == intEnd - p1
        nFrac   == IF point THEN fracEnd - intEnd - 1 ELSE 0
        mag     == DigitsValue(str, p1, intEnd - 1) * Scale
                   + (DigitsValue(str, intEnd + 1, intEnd + nFrac) * Scale) \div (10 ^ nFrac)
    IN  IF nInt + nFrac = 0
        THEN [ok |-> FALSE, value |-> 0, idx |-> 0]
        ELSE [ok    |-> TRUE,
              value |-> IF signed /\ str[p0] = "-" THEN 0 - mag ELSE mag,
              idx   |-> fracEnd - 1]

safeStringToDouble(str) ==
    IF str = <<>> THEN 0
    ELSE LET r == stod(str)
         IN  IF ~r.ok THEN 0
             ELSE IF r.idx # Len(str) THEN 0
             ELSE r.value

----------------------------------------------------------------------------
(* ratingToStars *)

\* the half-star character
HALF == "1/2"

\* (int)v: truncation toward zero
IntCast(v) == IF v >= 0 THEN v \div Scale ELSE 0 - ((0 - v) \div Scale)

\* the for loop appending "*" n times (no iteration when n <= 0)
Stars(n) == [i \in 1..n |-> "*"]

\* a renderer that clamps the rating to the 0-5 scale
ratingToStars_Clamped(str) ==
    IF str = <<>> THEN <<>>
    ELSE LET ratingValue == safeStringToDouble(str)
             fullStars   == IF IntCast(ratingValue) > 5 THEN 5 ELSE IntCast(ratingValue)
             halfStar    == 2 * (ratingValue - fullStars * Scale) >= Scale
         IN  IF ratingValue = 0 THEN <<>>
             ELSE Stars(fullStars) \o (IF halfStar THEN <<HALF>> ELSE <<>>)
                  \o <<" ", "(">> \o str \o <<"/", "5", ")">>

ratingToStars(str) ==
    IF str = <<>> THEN <<>>
    ELSE LET ratingValue == safeStringToDouble(str)
             fullStars   == IntCast(ratingValue)
             halfStar    == 2 * (ratingValue - fullStars * Scale) >= Scale
         IN  IF ratingValue = 0 THEN <<>>
             ELSE Stars(fullStars) \o (IF halfStar THEN <<HALF>> ELSE <<>>)
                  \o <<" ", "(">> \o str \o <<"/", "5", ")">>

----------------------------------------------------------------------------
(* The values a specification starts its unused variables with *)

ParseIdle == line = <<>> /\ fields = <<>>

StarsIdle == rating = <<>> /\ stars = <<>>

ReaderIdle == openable = TRUE /\ file = <<>> /\ lineNumber = 0 /\ isFirstLine = TRUE

ReportIdle ==
    /\ ingested = <<>> /\ sortChoice = ""
    /\ ratedMovies = 0 /\ totalRating = 0 /\ rewatchCount = 0
    /\ avgRating = <<>>

StreamsIdle == movies = <<>> /\ cerr = <<>> /\ cout = <<>>

----------------------------------------------------------------------------
(* SpecParse: parseCSVLine applied to every bounded line *)

InitParse ==
    /\ pc = "parse"
    /\ line \in StringsUpTo(CsvChars, MaxLineLen)
    /\ fields = <<>>
    /\ StarsIdle /\ ReaderIdle /\ ReportIdle /\ StreamsIdle

ParseLine ==
    /\ pc = "parse"
    /\ fields' = parseCSVLine(line)
    /\ pc' = "parsed"
    /\ UNCHANGED <<line, rating, stars, openable, file, lineNumber,
                   isFirstLine, movies, cerr, cout, ingested, sortChoice,
                   ratedMovies, totalRating, rewatchCount, avgRating>>

NextParse == ParseLine

SpecParse == InitParse /\ [][NextParse]_vars

----------------------------------------------------------------------------
(* SpecStars: ratingToStars applied to every bounded rating text *)

InitStars ==
    /\ pc = "render"
    /\ rating \in StringsUpTo(RatingChars, MaxRatingLen)
    /\ stars = <<>>
    /\ ParseIdle /\ ReaderIdle /\ ReportIdle /\ StreamsIdle

RenderStars ==
    /\ pc = "render"
    /\ stars' = ratingToStars(rating)
    /\ pc' = "rendered"
    /\ UNCHANGED <<line, fields, rating, openable, file, lineNumber,
                   isFirstLine, movies, cerr, cout, ingested, sortChoice,
                   ratedMovies, totalRating, rewatchCount, avgRating>>

NextStars == RenderStars

SpecStars == InitStars /\ [][NextStars]_vars

----------------------------------------------------------------------------
(* readLetterboxdCSV, and main's test of its result *)

\* fields.size() > k ? fields[k] : ""   (k is 0-based)
FieldOr(f, k) == IF Len(f) > k THEN f[k + 1] ELSE <<>>

\* the Movie filled from the fields of one line
MakeMovie(f) ==
    [date          |-> FieldOr(f, 0),
     name          |-> FieldOr(f, 1),
     year          |-> FieldOr(f, 2),
     letterboxdURI |-> FieldOr(f, 3),
     rating        |-> FieldOr(f, 4),
     rewatch       |-> FieldOr(f, 5),
     tags          |-> FieldOr(f, 6),
     watchedDate   |-> FieldOr(f, 7)]

\* the removal of one trailing carriage return
StripCR(str) ==
    IF str # <<>> /\ str[Len(str)] = CR THEN SubSeq(str, 1, Len(str) - 1) ELSE str

\* the lines a diary file of this model is made of
DiaryLines ==
    { <<>>,
      <<CR>>,
      <<CR, CR>>,
      <<"a">>,
      <<"a", CR>>,
      <<"d", COMMA, "a">>,
      <<"d", COMMA, "b", CR>>,
      <<"d", COMMA>>,
      <<QUOTE, "d", COMMA, "a", QUOTE>>,
      <<"d", COMMA, QUOTE, "a", COMMA, "b", QUOTE>>,
      <<"d", COMMA, "a", COMMA, COMMA, COMMA, "4", COMMA, "N", "o", COMMA, COMMA, "w", COMMA, "x">> }

DiaryFiles == UNION {[1..k -> DiaryLines] : k \in 0..MaxLines}

\* the lines written to cerr when the file does not open
OpenErrorText ==
    << "Error: Could not open file",
       "Please check that:",
       "  - The file path is correct",
       "  - The file exists",
       "  - You have permission to read the file" >>

InitReader ==
    /\ pc = "open"
    /\ \/ openable = TRUE /\ file \in DiaryFiles
       \/ openable = FALSE /\ file = <<>>
    /\ lineNumber = 0
    /\ isFirstLine = TRUE
    /\ movies = <<>> /\ cerr = <<>> /\ cout = <<>>
    /\ ParseIdle /\ StarsIdle /\ ReportIdle

ReaderFrame ==
    UNCHANGED <<line, fields, rating, stars, openable, file, ingested,
                sortChoice, ratedMovies, totalRating, rewatchCount, avgRating>>

\* an open failure that reports nothing
OpenFail_Silent ==
    /\ pc = "open"
    /\ ~openable
    /\ pc' = "returned"
    /\ UNCHANGED <<lineNumber, isFirstLine, movies, cerr, cout>>
    /\ ReaderFrame

\* both file.open calls fail: the message on cerr and the empty vector
OpenFail ==
    /\ pc = "open"
    /\ ~openable
    /\ cerr' = cerr \o OpenErrorText
    /\ pc' = "returned"
    /\ UNCHANGED <<lineNumber, isFirstLine, movies, cout>>
    /\ ReaderFrame

OpenOk ==
    /\ pc = "open"
    /\ openable
    /\ pc' = "loop"
    /\ UNCHANGED <<lineNumber, isFirstLine, movies, cerr, cout>>
    /\ ReaderFrame

\* the line getline delivers next, its trailing carriage return removed
CurrentLine == StripCR(file[lineNumber + 1])

\* the loop body on the first line
ReadHeader ==
    /\ pc = "loop"
    /\ lineNumber < Len(file)
    /\ isFirstLine
    /\ lineNumber' = lineNumber + 1
    /\ isFirstLine' = FALSE
    /\ cout' = Append(cout, <<"CSV Header: ", CurrentLine>>)
    /\ UNCHANGED <<pc, movies, cerr>>
    /\ ReaderFrame

\* the loop body on an empty line
SkipEmptyLine ==
    /\ pc = "loop"
    /\ lineNumber < Len(file)
    /\ ~isFirstLine
    /\ CurrentLine = <<>>
    /\ lineNumber' = lineNumber + 1
    /\ UNCHANGED <<pc, isFirstLine, movies, cerr, cout>>
    /\ ReaderFrame

\* the debug output for the second line of the file
FirstDataLineText(n, f) ==
    IF n = 2 THEN << <<"First data line has fields", Len(f)>> >> ELSE <<>>

\* the loop body on a line with at least two fields
AdmitLine ==
    /\ pc = "loop"
    /\ lineNumber < Len(file)
    /\ ~isFirstLine
    /\ CurrentLine # <<>>
    /\ LET f == parseCSVLine(CurrentLine)
       IN  /\ Len(f) >= 2
           /\ movies' = Append(movies, MakeMovie(f))
           /\ cout' = cout \o FirstDataLineText(lineNumber + 1, f)
    /\ lineNumber' = lineNumber + 1
    /\ UNCHANGED <<pc, isFirstLine, cerr>>
    /\ ReaderFrame

\* a drop that writes a warning
DropLine_Diagnosed ==
    /\ pc = "loop"
    /\ lineNumber < Len(file)
    /\ ~isFirstLine
    /\ CurrentLine # <<>>
    /\ LET f == parseCSVLine(CurrentLine)
       IN  /\ Len(f) < 2
           /\ cout' = cout \o FirstDataLineText(lineNumber + 1, f)
    /\ cerr' = Append(cerr, <<"Warning: Error parsing line ", lineNumber + 1>>)
    /\ lineNumber' = lineNumber + 1
    /\ UNCHANGED <<pc, isFirstLine, movies>>
    /\ ReaderFrame

\* a drop that stops reading
DropLine_Abort ==
    /\ pc = "loop"
    /\ lineNumber < Len(file)
    /\ ~isFirstLine
    /\ CurrentLine # <<>>
    /\ LET f == parseCSVLine(CurrentLine)
       IN  /\ Len(f) < 2
           /\ cout' = cout \o FirstDataLineText(lineNumber + 1, f)
    /\ lineNumber' = Len(file)
    /\ UNCHANGED <<pc, isFirstLine, movies, cerr>>
    /\ ReaderFrame

\* the loop body on a line with fewer than two fields
DropLine ==
    /\ pc = "loop"
    /\ lineNumber < Len(file)
    /\ ~isFirstLine
    /\ CurrentLine # <<>>
    /\ LET f == parseCSVLine(CurrentLine)
       IN  /\ Len(f) < 2
           /\ cout' = cout \o FirstDataLineText(lineNumber + 1, f)
    /\ lineNumber' = lineNumber + 1
    /\ UNCHANGED <<pc, isFirstLine, movies, cerr>>
    /\ ReaderFrame

\* getline fails at the end of the file: close, report, return
CloseAndReturn ==
    /\ pc = "loop"
    /\ lineNumber = Len(file)
    /\ cout' = Append(cout, <<"Successfully read movies", Len(movies)>>)
    /\ pc' = "returned"
    /\ UNCHANGED <<lineNumber, isFirstLine, movies, cerr>>
    /\ ReaderFrame

\* main: the returned vector is empty
MainNoMovies ==
    /\ pc = "returned"
    /\ movies = <<>>
    /\ cout' = Append(cout, <<"No movies found or error reading file.">>)
    /\ pc' = "exit"
    /\ UNCHANGED <<lineNumber, isFirstLine, movies, cerr>>
    /\ ReaderFrame

\* main: the returned vector holds records
MainFound ==
    /\ pc = "returned"
    /\ movies # <<>>
    /\ cout' = Append(cout, <<"Found watched movies", Len(movies)>>)
    /\ pc' = "menu"
    /\ UNCHANGED <<lineNumber, isFirstLine, movies, cerr>>
    /\ ReaderFrame

NextReader ==
    \/ OpenFail
    \/ OpenOk
    \/ ReadHeader
    \/ SkipEmptyLine
    \/ AdmitLine
    \/ DropLine
    \/ CloseAndReturn
    \/ MainNoMovies
    \/ MainFound

SpecReader == InitReader /\ [][NextReader]_vars

----------------------------------------------------------------------------
(* main: the sort, the display loop and the statistics *)

\* the characters of the record texts, in the order of their codes
CharOrder ==
    <<" ", QUOTE, COMMA, "-", ".", "0", "1", "2", "3", "4", "5", "6", "7",
      "8", "9", "N", "Y", "a", "b", "d", "e", "o", "s", "w", "x">>

CharCode(c) == CHOOSE k \in 1..Len(CharOrder) : CharOrder[k] = c

\* std::string operator< : lexicographic, by character code
StringLess(a, b) ==
    \E k \in 1..Len(b) :
        /\ k - 1 <= Len(a)
        /\ \A j \in 1..(k - 1) : a[j] = b[j]
        /\ \/ k > Len(a)
           \/ CharCode(a[k]) < CharCode(b[k])

\* the comparator of sort choice 3
NameLess(a, b) == StringLess(a.name, b.name)

\* the comparator of sort choice 4
RatingGreater(a, b) == safeStringToDouble(a.rating) > safeStringToDouble(b.rating)

\* a reverse that leaves the range as it is
Reverse_Noop(ms) == ms

\* std::reverse
Reverse(ms) == [i \in 1..Len(ms) |-> ms[Len(ms) + 1 - i]]

\* the range rearranged by permutation p
Permuted(ms, p) == [i \in 1..Len(ms) |-> ms[p[i]]]

\* what std::sort guarantees of its result under each comparator: no later
\* element orders before an earlier one.  The order of equivalent elements
\* is unspecified.
NameSorted(ms) == \A i, j \in 1..Len(ms) : i < j => ~NameLess(ms[j], ms[i])

RatingSorted(ms) == \A i, j \in 1..Len(ms) : i < j => ~RatingGreater(ms[j], ms[i])

\* a record of the report's input
Mk(n, r, w) ==
    [date          |-> <<"d">>,
     name          |-> n,
     year          |-> <<>>,
     letterboxdURI |-> <<>>,
     rating        |-> r,
     rewatch       |-> w,
     tags          |-> <<>>,
     watchedDate   |-> <<>>]

\* the records the report's input is made of
ReportMovies ==
    { Mk(<<"a">>, <<"4">>, <<"N", "o">>),
      Mk(<<"a">>, <<"-", "2">>, <<"Y", "e", "s">>),
      Mk(<<"a">>, <<>>, <<"Y", "e", "s">>),
      Mk(<<"a">>, <<"7">>, <<>>),
      Mk(<<"b">>, <<"4">>, <<>>),
      Mk(<<"b">>, <<"a">>, <<"N", "o">>),
      Mk(<<"b">>, <<"0">>, <<>>),
      Mk(<<"b">>, <<"4", ".", "5">>, <<"N", "o">>) }

\* main after "Found n watched movies!": a non-empty vector
InitReport ==
    /\ pc = "menu"
    /\ movies \in UNION {[1..k -> ReportMovies] : k \in 1..MaxMovies}
    /\ ingested = movies
    /\ cout = << <<"Found watched movies", Len(movies)>> >>
    /\ cerr = <<>>
    /\ sortChoice = ""
    /\ ratedMovies = 0 /\ totalRating = 0 /\ rewatchCount = 0
    /\ avgRating = <<>>
    /\ ParseIdle /\ StarsIdle /\ ReaderIdle

ReportFrame ==
    UNCHANGED <<line, fields, rating, stars, openable, file, lineNumber,
                isFirstLine, cerr, ingested>>

StatsFrame == UNCHANGED <<ratedMovies, totalRating, rewatchCount, avgRating>>

\* sort choice "2"
SortOldestFirst ==
    /\ pc = "menu"
    /\ sortChoice' = "2"
    /\ movies' = Reverse(movies)
    /\ pc' = "display"
    /\ UNCHANGED cout
    /\ StatsFrame /\ ReportFrame

\* sort choice "3"
SortAlphabetical ==
    /\ pc = "menu"
    /\ sortChoice' = "3"
    /\ \E p \in Permutations(1..Len(movies)) :
          /\ NameSorted(Permuted(movies, p))
          /\ movies' = Permuted(movies, p)
    /\ pc' = "display"
    /\ UNCHANGED cout
    /\ StatsFrame /\ ReportFrame

\* sort choice "4"
SortHighestRated ==
    /\ pc = "menu"
    /\ sortChoice' = "4"
    /\ \E p \in Permutations(1..Len(movies)) :
          /\ RatingSorted(Permuted(movies, p))
          /\ movies' = Permuted(movies, p)
    /\ pc' = "display"
    /\ UNCHANGED cout
    /\ StatsFrame /\ ReportFrame

\* any other input: the order stays
SortDefault ==
    /\ pc = "menu"
    /\ \E c \in {"", "1"} : sortChoice' = c
    /\ pc' = "display"
    /\ UNCHANGED <<movies, cout>>
    /\ StatsFrame /\ ReportFrame

\* the lines the display loop writes for movies[i]
DisplayEntry(ms, i) ==
    LET m == ms[i]
        s == ratingToStars(m.rating)
    IN  << <<i, ". ", m.name, IF m.year # <<>> THEN m.year ELSE "">> >>
        \o (IF m.watchedDate # <<>> THEN << <<"   Watched: ", m.watchedDate>> >>
            ELSE IF m.date # <<>> THEN << <<"   Watched: ", m.date>> >>
            ELSE <<>>)
        \o (IF m.rating # <<>> /\ s # <<>> THEN << <<"   Rating: ", s>> >> ELSE <<>>)
        \o (IF m.rewatch # <<>> /\ m.rewatch # <<"N", "o">> THEN << <<"   [REWATCH]">> >> ELSE <<>>)
        \o (IF m.tags # <<>> THEN << <<"   Tags: ", m.tags>> >> ELSE <<>>)

RECURSIVE DisplayUpTo(_, _)
DisplayUpTo(ms, n) ==
    IF n = 0 THEN <<>> ELSE DisplayUpTo(ms, n - 1) \o DisplayEntry(ms, n)

DisplayAll ==
    /\ pc = "display"
    /\ cout' = cout \o DisplayUpTo(movies, Len(movies))
                    \o << <<"Total movies watched: ", Len(movies)>> >>
    /\ pc' = "stats"
    /\ UNCHANGED <<movies, sortChoice>>
    /\ StatsFrame /\ ReportFrame

\* a test that counts every rating other than zero
IsRated_NonZero(m) == m.rating # <<>> /\ safeStringToDouble(m.rating) # 0

\* the test that lets a movie into ratedMovies and totalRating
IsRated(m) == m.rating # <<>> /\ safeStringToDouble(m.rating) > 0

IsRewatch(m) == m.rewatch # <<>> /\ m.rewatch # <<"N", "o">>

\* the three counters after the first n iterations of the statistics loop
RECURSIVE StatsUpTo(_, _)
StatsUpTo(ms, n) ==
    IF n = 0
    THEN [rated |-> 0, total |-> 0, rewatch |-> 0]
    ELSE LET prev == StatsUpTo(ms, n - 1)
             m    == ms[n]
         IN  [rated   |-> IF IsRated(m) THEN prev.rated + 1 ELSE prev.rated,
              total   |-> IF IsRated(m)
                          THEN prev.total + safeStringToDouble(m.rating)
                          ELSE prev.total,
              rewatch |-> IF IsRewatch(m) THEN prev.rewatch + 1 ELSE prev.rewatch]

ComputeStats ==
    /\ pc = "stats"
    /\ LET st == StatsUpTo(movies, Len(movies))
       IN  /\ ratedMovies' = st.rated
           /\ totalRating' = st.total
           /\ rewatchCount' = st.rewatch
           /\ avgRating' = IF st.rated > 0
                           THEN <<st.total, st.rated>>
                           ELSE <<>>
           /\ cout' = cout
                \o (IF st.rated > 0
                    THEN << <<"Average rating: ", <<st.total, st.rated>>, st.rated>> >>
                    ELSE <<>>)
                \o (IF st.rewatch > 0 THEN << <<"Rewatches: ", st.rewatch>> >> ELSE <<>>)
    /\ pc' = "done"
    /\ UNCHANGED <<movies, sortChoice>>
    /\ ReportFrame

NextReport ==
    \/ SortOldestFirst
    \/ SortAlphabetical
    \/ SortHighestRated
    \/ SortDefault
    \/ DisplayAll
    \/ ComputeStats

SpecReport == InitReport /\ [][NextReport]_vars

----------------------------------------------------------------------------
(* Properties of parseCSVLine (SpecParse) *)

\* the number of quote characters before position i
QuotesBefore(str, i) == Cardinality({j \in 1..(i - 1) : str[j] = QUOTE})

Balanced(str) == QuotesBefore(str, Len(str) + 1) % 2 = 0

\* the commas that lie outside every quoted span
TopLevelCommas(str) ==
    Cardinality({i \in 1..Len(str) : str[i] = COMMA /\ QuotesBefore(str, i) % 2 = 0})

QuotedCommas(str) ==
    Cardinality({i \in 1..Len(str) : str[i] = COMMA /\ QuotesBefore(str, i) % 2 = 1})

\* C1: every line yields at least one field, and a line whose quotes are
\* balanced yields exactly (commas outside quoted spans) + 1 fields; commas
\* inside a quoted span start no field.
C1_FieldCount ==
    pc = "parsed" =>
        /\ Len(fields) >= 1
        /\ Balanced(line) => Len(fields) = TopLevelCommas(line) + 1

\* a balanced line with one comma inside quotes and one outside
C1_Witness ==
    /\ pc = "parsed"
    /\ Balanced(line)
    /\ QuotedCommas(line) = 1
    /\ TopLevelCommas(line) = 1
    /\ Len(fields) = 2

Blank == {" ", "\t", "\r", "\n"}

\* C10: for every line, balanced or not, no returned field holds a quote
\* character anywhere, and no returned field begins or ends with a space,
\* tab, carriage return or newline.
C10_CleanFields ==
    pc = "parsed" =>
        \A k \in 1..Len(fields) :
            /\ \A i \in 1..Len(fields[k]) : fields[k][i] # QUOTE
            /\ fields[k] # <<>> =>
                   /\ fields[k][1] \notin Blank
                   /\ fields[k][Len(fields[k])] \notin Blank

\* an unbalanced line with a quote inside the text and blanks at both ends
C10_Witness ==
    /\ pc = "parsed"
    /\ line = <<" ", "a", QUOTE, " ">>
    /\ ~Balanced(line)
    /\ fields = << <<"a">> >>

----------------------------------------------------------------------------
(* Properties of ratingToStars (SpecStars) *)

\* C8: ratingToStars returns the empty string when the rating is empty or
\* converts to exactly 0 (unparsable text included); otherwise one "*" per
\* whole point of the converted value (none for a negative value), then the
\* half marker exactly when the fractional remainder is at least 0.5, then
\* " (rating/5)" built from the original text; no range check is applied.
C8_StarsRendering ==
    pc = "rendered" =>
        LET v     == safeStringToDouble(rating)
            whole == IF v > 0 THEN v \div Scale ELSE 0
            half  == v > 0 /\ 2 * (v % Scale) >= Scale
            h     == IF half THEN 1 ELSE 0
        IN  IF rating = <<>> \/ v = 0
            THEN stars = <<>>
            ELSE /\ Len(stars) = whole + h + Len(rating) + 5
                 /\ \A i \in 1..whole : stars[i] = "*"
                 /\ half => stars[whole + 1] = HALF
                 /\ SubSeq(stars, whole + h + 1, Len(stars))
                        = <<" ", "(">> \o rating \o <<"/", "5", ")">>

\* a rating of 7: seven whole markers and no half marker
C8_Witness ==
    /\ pc = "rendered"
    /\ rating = <<"7">>
    /\ stars = <<"*", "*", "*", "*", "*", "*", "*", " ", "(", "7", "/", "5", ")">>

----------------------------------------------------------------------------
(* Properties of readLetterboxdCSV (SpecReader) *)

\* the data line at position i of the file, as the loop sees it
DataLine(f, i) == StripCR(f[i])

\* the positions after the header whose line is non-empty and has two fields
ValidIdx(f) ==
    {i \in 2..Len(f) : DataLine(f, i) # <<>> /\ Len(parseCSVLine(DataLine(f, i))) >= 2}

\* the positions after the header whose line is non-empty and has one field
MalformedIdx(f) ==
    {i \in 2..Len(f) : DataLine(f, i) # <<>> /\ Len(parseCSVLine(DataLine(f, i))) < 2}

\* the positions after the header whose line is empty
EmptyIdx(f) == {i \in 2..Len(f) : DataLine(f, i) = <<>>}

\* the k-th smallest element of the set S of numbers
Nth(S, k) == CHOOSE i \in S : Cardinality({j \in S : j <= i}) = k

\* C2: every record of the collection has a non-empty name.
C2_NameNonEmpty == \A i \in 1..Len(movies) : movies[i].name # <<>>

\* what the caller of readLetterboxdCSV receives: the returned vector
CallerView == [records |-> movies]

\* what the caller receives for a source that holds only a header line
HeaderOnlyView == [records |-> <<>>]

C6_RecordsAreValidLines ==
    (pc = "returned" /\ openable) =>
        /\ Len(movies) = Cardinality(ValidIdx(file))
        /\ \A k \in 1..Len(movies) :
               movies[k] = MakeMovie(parseCSVLine(DataLine(file, Nth(ValidIdx(file), k))))

\* a one-field line followed by a valid line, which is admitted
C6_Witness ==
    /\ pc = "returned"
    /\ openable
    /\ Len(file) = 3
    /\ 2 \in MalformedIdx(file)
    /\ 3 \in ValidIdx(file)
    /\ Len(movies) = 1

----------------------------------------------------------------------------
(* Properties of main's sort and statistics (SpecReport) *)

AfterSort == pc \in {"display", "stats", "done"}

RatingValue(m) == safeStringToDouble(m.rating)

\* C3: under sort choices 3 and 4, records whose keys compare equal (same
\* name; same converted rating, unparsable counting as 0) keep their
\* ingestion order: the collection is the ingested one rearranged by a
\* permutation that keeps equal keys in their original order.
C3_StableSort ==
    (AfterSort /\ sortChoice \in {"3", "4"}) =>
        \E p \in Permutations(1..Len(ingested)) :
            /\ movies = Permuted(ingested, p)
            /\ \A i, j \in 1..Len(movies) :
                   (/\ i < j
                    /\ sortChoice = "3" => movies[i].name = movies[j].name
                    /\ sortChoice = "4" => RatingValue(movies[i]) = RatingValue(movies[j]))
                   => p[i] < p[j]

RECURSIVE SumRatings(_, _)
SumRatings(ms, S) ==
    IF S = {} THEN 0
    ELSE LET i == CHOOSE x \in S : TRUE
         IN  RatingValue(ms[i]) + SumRatings(ms, S \ {i})

NonZeroIdx(ms) == {i \in 1..Len(ms) : ms[i].rating # <<>> /\ RatingValue(ms[i]) # 0}

PositiveIdx(ms) == {i \in 1..Len(ms) : ms[i].rating # <<>> /\ RatingValue(ms[i]) > 0}

\* C7 as stated: the rated count is the number of records whose rating is
\* non-empty and converts to a value other than 0, and the average is the
\* sum of those ratings over that count.
C7_NonZeroRatings ==
    pc = "done" =>
        /\ ratedMovies = Cardinality(NonZeroIdx(movies))
        /\ totalRating = SumRatings(movies, NonZeroIdx(movies))

\* C7 as amended: the rated count is the number of records whose rating is
\* non-empty and converts to a value greater than 0, and the average, which
\* exists only when that count is positive, is the sum of those ratings
\* over that count; a rating that is empty, converts to 0 or converts to a
\* negative value is left out of both.
C7_PositiveRatings ==
    pc = "done" =>
        /\ ratedMovies = Cardinality(PositiveIdx(movies))
        /\ totalRating = SumRatings(movies, PositiveIdx(movies))
        /\ ratedMovies > 0 => avgRating = <<totalRating, ratedMovies>>
        /\ ratedMovies = 0 => avgRating = <<>>

\* two rated records and one with a negative rating, which is left out
C7_Witness ==
    /\ pc = "done"
    /\ \E i \in 1..Len(movies) : RatingValue(movies[i]) < 0
    /\ ratedMovies = 2
    /\ avgRating = <<totalRating, 2>>

====
